---- MODULE Spec2Model ----
(***************************************************************************)
(* A model of kis_external_interface (src/kis_external.cc): the endpoint   *)
(* that speaks the framed external-helper protocol over a child pipe pair, *)
(* an attached TCP socket or a delegated write callback.                   *)
(*                                                                         *)
(* Every C++ method is an operator from a world record w to a world record *)
(* (or to [w, ret] when the method returns a value), so that a handler     *)
(* is the composition of the calls it makes.  The world holds              *)
(*   ep    the members of the endpoint object,                             *)
(*   host  the collaborators it calls (event bus, IPC registry, timers,    *)
(*         HTTP server routes and connections, signals delivered),         *)
(*   io    the asynchronous operations posted on the reactor,              *)
(*   hs    the HTTP worker threads and the session object each one holds,  *)
(*   fx    the calls made on collaborators during the current step.        *)
(***************************************************************************)
EXTENDS Integers, Sequences, FiniteSets, TLC

VARIABLES ep, host, io, hs, cpc, wire, last

vars == <<ep, host, io, hs, cpc, wire, last>>

(***************************************************************************)
(* Bounds of the model.                                                    *)
(***************************************************************************)
MaxStarts == 2        \* successful attach_tcp_socket / run_ipc calls in one run
MaxSends == 1         \* send_packet calls made by the owner of the endpoint
MaxSessions == 2      \* invocations of the HTTP proxy handler
MaxSeqSends == 4      \* send_packet calls in one run of SpecSeq
MaxHttpStarts == 1    \* attach_tcp_socket calls in a run of the HTTP and seqno specifications
MaxFrames == 3        \* frames the helper writes in a run of the HTTP and framing specifications
MaxParseFrames == 2   \* frames the helper writes in a run of the parsing specification
MaxWriteSends == 2    \* send_packet calls in a run of the write specification
MaxRx == 2            \* frames the helper writes in one run
NumWorkers == 2       \* HTTP server worker threads

Workers == 1..NumWorkers

(***************************************************************************)
(* 32-bit unsigned values are kept as two 16-bit halves, so that the wrap  *)
(* of the sequence counter is the wrap of a uint32_t.                      *)
(***************************************************************************)
Half == 65536

U32(n) == [hi |-> 0, lo |-> n]
Zero32 == U32(0)
One32 == U32(1)
Max32 == [hi |-> Half - 1, lo |-> Half - 1]

Inc32(x) ==
    IF x.lo = Half - 1
    THEN [hi |-> (x.hi + 1) % Half, lo |-> 0]
    ELSE [hi |-> x.hi, lo |-> x.lo + 1]

\* big-endian bytes of a 32-bit value (kis_hton32 followed by the byte view)
BE32(x) == << x.hi \div 256, x.hi % 256, x.lo \div 256, x.lo % 256 >>

\* the 32-bit value of four big-endian bytes (kis_ntoh32)
FromBE32(b) == [hi |-> b[1] * 256 + b[2], lo |-> b[3] * 256 + b[4]]

Drop(s, n) == SubSeq(s, n + 1, Len(s))
Take(s, n) == SubSeq(s, 1, n)

(***************************************************************************)
(* The frame: signature, data_sz, data_checksum (each 32 bits, network     *)
(* order) and data_sz bytes of payload.                                    *)
(***************************************************************************)
FrameHeaderSize == 12

KIS_EXTERNAL_PROTO_SIG == << 222, 202, 251, 173 >>

AdlerMod == 65521

RECURSIVE AdlerStep(_, _, _)
AdlerStep(data, a, b) ==
    IF data = << >>
    THEN [hi |-> b, lo |-> a]
    ELSE LET a2 == (a + Head(data)) % AdlerMod
         IN  AdlerStep(Tail(data), a2, (b + a2) % AdlerMod)

adler32_checksum(data) == AdlerStep(data, 1, 0)

\* send_packet's framing of a serialized command
EncodeFrame(payload) ==
    KIS_EXTERNAL_PROTO_SIG \o BE32(U32(Len(payload)))
        \o BE32(adler32_checksum(payload)) \o payload

(***************************************************************************)
(* The envelope KismetExternal::Command {command, seqno, content} and its  *)
(* serialization: one byte naming the command, the four bytes of seqno,    *)
(* then the bytes of content.  A byte BadByte never occurs in a well       *)
(* formed message; a buffer holding one does not parse.  To the envelope   *)
(* content is an opaque bytes field, parsed by the handler alone.          *)
(***************************************************************************)
BadByte == 255

BuiltinCommands ==
    << "MESSAGE", "PING", "PONG", "SHUTDOWN", "HTTPREGISTERURI", "HTTPRESPONSE",
       "HTTPAUTHREQ", "EVENTBUSREGISTER", "EVENTBUSPUBLISH" >>

OtherCommands == << "HTTPREQUEST", "HTTPAUTH", "EVENT", "EXTENSION" >>

CommandNames == BuiltinCommands \o OtherCommands

CommandCode(name) == CHOOSE i \in 1..Len(CommandNames) : CommandNames[i] = name

Command(name, seqno, content) ==
    [command |-> name, seqno |-> seqno, content |-> content]

SerializeCommand(c) == << CommandCode(c.command) >> \o BE32(c.seqno) \o c.content

Parses(bytes) == \A i \in 1..Len(bytes) : bytes[i] # BadByte

ParseCommandOk(bytes) ==
    /\ Len(bytes) >= 5
    /\ bytes[1] \in 1..Len(CommandNames)
    /\ Parses(SubSeq(bytes, 1, 5))

ParseCommand(bytes) ==
    Command(CommandNames[bytes[1]], FromBE32(SubSeq(bytes, 2, 5)), Drop(bytes, 5))

(***************************************************************************)
(* The world record and the calls recorded in it.                          *)
(***************************************************************************)
\* throws: what the HTTP connection refuses during this step (append_header and
\* set_status may throw std::runtime_error, which the handler catches)
World == [ep |-> ep, host |-> host, io |-> io, hs |-> hs, fx |-> << >>, throws |-> "none"]

Fx(w, e) == [w EXCEPT !.fx = Append(@, e)]

Ret(w, r) == [w |-> w, ret |-> r]

Range(f) == {f[x] : x \in DOMAIN f}

RECURSIVE SetToSeq(_)
SetToSeq(S) ==
    IF S = {} THEN << >>
    ELSE LET m == CHOOSE x \in S : \A y \in S : x <= y
         IN  << m >> \o SetToSeq(S \ {m})

Running(w) == ~w.ep.stopped /\ ~w.ep.cancelled

(***************************************************************************)
(* ipc_soft_kill / ipc_hard_kill                                           *)
(***************************************************************************)
\* ipc_in.cancel(); ipc_in.close(); ipc_out.cancel(); ipc_out.close():
\* a read pending on the descriptor completes with operation_aborted, the
\* aborted write completions do nothing and are dropped.
close_ipc_pipes(w) ==
    LET w1 == IF w.ep.ipc_in
              THEN [w EXCEPT !.ep.ipc_in = FALSE,
                             !.io.ab_ipc = IF w.io.rd_ipc THEN @ + 1 ELSE @,
                             !.io.rd_ipc = FALSE]
              ELSE w
    IN  IF w1.ep.ipc_out
        THEN [w1 EXCEPT !.ep.ipc_out = FALSE, !.io.wr.ipc = 0]
        ELSE w1

signal_child(w, sig) ==
    IF w.ep.ipc_pid > 0
    THEN Fx([w EXCEPT !.host.registry = @ \ {w.ep.ipc_pid},
                      !.host.sigs = @ \cup {<< w.ep.ipc_pid, sig >>}],
            << "kill", w.ep.ipc_pid, sig >>)
    ELSE w

ipc_soft_kill(w) ==
    signal_child(close_ipc_pipes([w EXCEPT !.ep.stopped = TRUE, !.ep.cancelled = TRUE]),
                 "SIGTERM")

ipc_hard_kill(w) ==
    signal_child(close_ipc_pipes([w EXCEPT !.ep.stopped = TRUE, !.ep.cancelled = TRUE]),
                 "SIGKILL")

(***************************************************************************)
(* close_external                                                          *)
(***************************************************************************)
RECURSIVE remove_listeners(_, _)
remove_listeners(w, ids) ==
    IF ids = << >> THEN w
    ELSE remove_listeners(
            Fx([w EXCEPT !.host.bus = @ \ {Head(ids)}], << "remove_listener", Head(ids) >>),
            Tail(ids))

\* fail_session without the release of the gate
fail_session_cancel_only(w, h) ==
    [w EXCEPT !.host.conn[h].cancelled = TRUE]

\* s.second->connection->response_stream().cancel(); s.second->locker->unlock();
fail_session(w, h) ==
    Fx([w EXCEPT !.host.conn[h].cancelled = TRUE, !.hs[h].locked = FALSE],
       << "gate_unlock", h >>)

RECURSIVE fail_sessions(_, _)
fail_sessions(w, ids) ==
    IF ids = << >> THEN w
    ELSE fail_sessions(fail_session(w, w.ep.http_proxy_session_map[Head(ids)]), Tail(ids))

close_tcpsocket(w) ==
    IF w.ep.tcpsocket
    THEN [w EXCEPT !.ep.tcpsocket = FALSE,
                   !.io.ab_tcp = IF w.io.rd_tcp THEN @ + 1 ELSE @,
                   !.io.rd_tcp = FALSE,
                   !.io.wr.tcp = 0]
    ELSE w

\* the part of close_external that runs under ext_mutex (lines 85..114)
close_external_locked(w) ==
    LET w1 == remove_listeners(w, SetToSeq(Range(w.ep.eventbus_callback_map)))
        w2 == fail_sessions(w1, SetToSeq(DOMAIN w1.ep.http_proxy_session_map))
        w3 == Fx([w2 EXCEPT !.host.timers = @ \ {w2.ep.ping_timer_id}],
                 << "remove_timer", w2.ep.ping_timer_id >>)
        w4 == ipc_hard_kill(w3)
        w5 == close_tcpsocket(w4)
    IN  [w5 EXCEPT !.ep.write_cb = FALSE, !.ep.closure_cb = FALSE]

close_external(w) ==
    close_external_locked([w EXCEPT !.ep.stopped = TRUE, !.ep.cancelled = TRUE])

(***************************************************************************)
(* trigger_error                                                           *)
(***************************************************************************)
\* the virtual hook a driver overrides
handle_error(w, msg) == Fx([w EXCEPT !.host.nerr = @ + 1], << "handle_error", msg >>)

\* trigger_error that reports the error and leaves the endpoint up
trigger_error_report_only(w, msg) ==
    LET w0 == Fx(w, << "trigger_error", msg >>)
    IN  IF w0.ep.stopped THEN w0
        ELSE handle_error(w0, msg)

\* every call is recorded in fx, also the one that returns at once
trigger_error(w, msg) ==
    LET w0 == Fx(w, << "trigger_error", msg >>)
    IN  IF w0.ep.stopped THEN w0
        ELSE close_external(handle_error(w0, msg))

(***************************************************************************)
(* start_ipc_read / start_tcp_read: post one async_read on the transport.  *)
(***************************************************************************)
start_ipc_read(w) ==
    IF w.ep.stopped THEN w
    ELSE Fx([w EXCEPT !.io.rd_ipc = TRUE], << "async_read", "ipc" >>)

start_tcp_read(w) ==
    IF w.ep.stopped THEN w
    ELSE Fx([w EXCEPT !.io.rd_tcp = TRUE], << "async_read", "tcp" >>)

(***************************************************************************)
(* attach_tcp_socket / run_ipc                                             *)
(***************************************************************************)
attach_tcp_socket(w) ==
    LET w1 == [w EXCEPT !.ep.stopped = TRUE, !.ep.in_buf = << >>]
    IN  IF w1.ep.ipc_pid > 0
        THEN Ret(w1, FALSE)
        ELSE \* tcpsocket = std::move(socket): a socket held before is closed
             LET w2 == [close_tcpsocket(w1) EXCEPT !.ep.tcpsocket = TRUE]
                 w3 == [w2 EXCEPT !.ep.stopped = FALSE, !.ep.cancelled = FALSE,
                                  !.host.starts = @ + 1]
             IN  Ret(start_tcp_read(w3), TRUE)

\* what the launch meets: no binary configured, none found on the search
\* paths, not runnable by this user, pipe() or fork() failing, or a child
RunIpcOutcomes ==
    {"no_binary", "not_found", "not_runnable", "pipe_failed", "fork_failed", "forked"}

run_ipc(w, outcome) ==
    LET w1 == [w EXCEPT !.ep.stopped = TRUE, !.ep.in_buf = << >>]
    IN  IF outcome # "forked"
        THEN Ret(w1, FALSE)
        ELSE \* ipc_out = ..., ipc_in = ...: descriptors held before are closed
             LET pid == w1.host.nextpid
                 w2 == [close_ipc_pipes(w1) EXCEPT !.ep.ipc_in = TRUE, !.ep.ipc_out = TRUE,
                                                   !.ep.ipc_pid = pid,
                                                   !.host.nextpid = @ + 1,
                                                   !.host.registry = @ \cup {pid}]
                 w3 == [w2 EXCEPT !.ep.stopped = FALSE, !.ep.cancelled = FALSE,
                                  !.host.starts = @ + 1]
             IN  Ret(start_ipc_read(w3), TRUE)

(***************************************************************************)
(* send_packet                                                             *)
(***************************************************************************)
\* ++seqno without the test for 0
NextSeqno_no_skip(seqno) == Inc32(seqno)

\* if (++seqno == 0) seqno = 1;
NextSeqno(seqno) ==
    LET n == Inc32(seqno) IN IF n = Zero32 THEN One32 ELSE n

\* the transport a frame is handed to: write_cb, else ipc_out, else tcpsocket
SendVia(w) ==
    IF w.ep.write_cb THEN "cb"
    ELSE IF w.ep.ipc_out THEN "ipc"
    ELSE IF w.ep.tcpsocket THEN "tcp"
    ELSE "none"

\* send_packet falling through to return c->seqno() when nothing is open
send_packet_no_error(w, c) ==
    LET assign == c.seqno = Zero32
        w1 == IF assign THEN [w EXCEPT !.ep.seqno = NextSeqno(@)] ELSE w
        c1 == IF assign THEN [c EXCEPT !.seqno = w1.ep.seqno] ELSE c
        frame == EncodeFrame(SerializeCommand(c1))
        via == SendVia(w1)
    IN  IF via = "none"
        THEN Ret(w1, c1.seqno)
        ELSE Ret(Fx([w1 EXCEPT !.io.wr[via] = @ + 1,
                               !.host.txseq = IF assign THEN Append(@, c1.seqno) ELSE @],
                    << "tx", via, frame >>),
                 c1.seqno)

send_packet(w, c) ==
    LET assign == c.seqno = Zero32
        w1 == IF assign THEN [w EXCEPT !.ep.seqno = NextSeqno(@)] ELSE w
        c1 == IF assign THEN [c EXCEPT !.seqno = w1.ep.seqno] ELSE c
        frame == EncodeFrame(SerializeCommand(c1))
        via == SendVia(w1)
    IN  IF via = "none"
        THEN Ret(trigger_error(w1, "no connections"), Zero32)
        ELSE Ret(Fx([w1 EXCEPT !.io.wr[via] = @ + 1,
                               !.host.txseq = IF assign THEN Append(@, c1.seqno) ELSE @],
                    << "tx", via, frame >>),
                 c1.seqno)

send_ping(w) == send_packet(w, Command("PING", Zero32, << >>))

send_pong(w, ping_seqno) == send_packet(w, Command("PONG", Zero32, BE32(ping_seqno)))

send_shutdown(w, reason) == send_packet(w, Command("SHUTDOWN", Zero32, << reason >>))

\* send_http_request putting req_id 0 in every request
send_http_request_fixed_id(w, in_http_sequence, uri, method) ==
    send_packet(w, Command("HTTPREQUEST", Zero32, << 0, uri, method >>))

send_http_request(w, in_http_sequence, uri, method) ==
    send_packet(w, Command("HTTPREQUEST", Zero32, << in_http_sequence, uri, method >>))

send_http_auth(w, token) == send_packet(w, Command("HTTPAUTH", Zero32, << token >>))

proxy_event(w, evt) == send_packet(w, Command("EVENT", Zero32, << evt >>)).w

(***************************************************************************)
(* The built-in command handlers.  The content of each sub-message is a    *)
(* short byte string with one byte per field.                              *)
(***************************************************************************)
Now == 1

handle_msg_proxy(w, msg, msgtype) == Fx(w, << "msg", msgtype, msg >>)

handle_packet_message(w, in_seqno, in_content) ==
    IF ~(Len(in_content) = 2 /\ Parses(in_content))
    THEN trigger_error(w, "Invalid MESSAGE")
    ELSE handle_msg_proxy(w, in_content[2], in_content[1])

\* the handler answering with the endpoint's own counter for ping_seqno
handle_packet_ping_own_seqno(w, in_seqno, in_content) == send_pong(w, w.ep.seqno).w

handle_packet_ping(w, in_seqno, in_content) == send_pong(w, in_seqno).w

handle_packet_pong(w, in_seqno, in_content) ==
    IF ~(Len(in_content) = 4 /\ Parses(in_content))
    THEN trigger_error(w, "Invalid PONG")
    ELSE [w EXCEPT !.ep.last_pong = Now]

\* the handler with the INFO message after trigger_error, behind its return
handle_packet_shutdown_info_late(w, in_seqno, in_content) ==
    IF ~(Len(in_content) = 1 /\ Parses(in_content))
    THEN trigger_error(w, "invalid SHUTDOWN")
    ELSE LET w1 == trigger_error(w, << "Remote connection requesting shutdown: ",
                                      in_content[1] >>)
         IN  IF w1.ep.stopped THEN w1
             ELSE Fx(w1, << "msg", "INFO", "Kismet external interface shutting down: ",
                            in_content[1] >>)

handle_packet_shutdown(w, in_seqno, in_content) ==
    IF ~(Len(in_content) = 1 /\ Parses(in_content))
    THEN trigger_error(w, "invalid SHUTDOWN")
    ELSE trigger_error(
            Fx(w, << "msg", "INFO", "Kismet external interface shutting down: ",
                     in_content[1] >>),
            << "Remote connection requesting shutdown: ", in_content[1] >>)

RECURSIVE register_events(_, _)
register_events(w, events) ==
    IF events = << >> THEN w
    ELSE LET e == Head(events)
             w1 == IF e \in DOMAIN w.ep.eventbus_callback_map
                   THEN Fx([w EXCEPT !.host.bus = @ \ {w.ep.eventbus_callback_map[e]}],
                           << "remove_listener", w.ep.eventbus_callback_map[e] >>)
                   ELSE w
             eid == w1.host.bus_next
             w2 == Fx([w1 EXCEPT !.host.bus = @ \cup {eid}, !.host.bus_next = @ + 1],
                      << "register_listener", e, eid >>)
             w3 == [w2 EXCEPT !.ep.eventbus_callback_map =
                                   [x \in DOMAIN @ \cup {e} |-> IF x = e THEN eid ELSE @[x]]]
         IN  register_events(w3, Tail(events))

handle_packet_eventbus_register(w, in_seqno, in_content) ==
    IF ~Parses(in_content)
    THEN trigger_error(w, "Invalid EVENTBUSREGISTER")
    ELSE register_events(w, in_content)

handle_packet_eventbus_publish(w, in_seqno, in_content) ==
    IF ~(Len(in_content) = 2 /\ Parses(in_content))
    THEN trigger_error(w, "Invalid EVENTBUSPUBLISH")
    ELSE Fx(w, << "publish", in_content[1], in_content[2] >>)

\* the route registered by HTTPREGISTERURI; its handler is HandlerInvoke below
handle_packet_http_register(w, in_seqno, in_content) ==
    IF ~(Len(in_content) = 2 /\ Parses(in_content))
    THEN trigger_error(w, "Invalid HTTPREGISTERURI")
    ELSE Fx([w EXCEPT !.host.routes = @ \cup {<< in_content[1], in_content[2] >>}],
            << "register_route", in_content[1], in_content[2] >>)

\* HttpResponse as bytes: req_id, number of headers, resultcode (0: absent),
\* content (0: absent or empty), close_response (0: absent, 1: false, 2: true)
RECURSIVE append_headers(_, _, _)
append_headers(w, h, n) ==
    IF n = 0 THEN w
    ELSE append_headers(Fx([w EXCEPT !.host.conn[h].headers = TRUE],
                           << "conn", h, "append_header" >>), h, n - 1)

\* the response handler testing has_close_response() alone
handle_packet_http_response_has_close(w, in_seqno, in_content) ==
    IF ~(Len(in_content) = 5 /\ Parses(in_content))
    THEN trigger_error(w, "Invalid  HTTPRESPONSE")
    ELSE LET req_id == in_content[1]
             nhdr == in_content[2]
             resultcode == in_content[3]
             content == in_content[4]
             close_response == in_content[5]
         IN  IF req_id \notin DOMAIN w.ep.http_proxy_session_map
             THEN trigger_error(w, "Invalid HTTPRESPONSE session")
             ELSE LET h == w.ep.http_proxy_session_map[req_id]
                  IN  IF nhdr > 0 /\ w.throws = "append_header"
                      THEN trigger_error(w, "Invalid HTTPRESPONSE header block")
                      ELSE LET w1 == append_headers(w, h, nhdr)
                           IN  IF resultcode # 0 /\ w.throws = "set_status"
                               THEN trigger_error(w1, "invalid HTTPRESPONSE status code")
                               ELSE LET w2 == IF resultcode # 0
                                              THEN Fx([w1 EXCEPT !.host.conn[h].status = resultcode],
                                                      << "conn", h, "set_status" >>)
                                              ELSE w1
                                        w3 == IF content # 0
                                              THEN Fx([w2 EXCEPT !.host.conn[h].body = TRUE],
                                                      << "conn", h, "put_data" >>)
                                              ELSE w2
                                    IN  IF close_response # 0
                                        THEN Fx(Fx([w3 EXCEPT !.host.conn[h].completed = TRUE,
                                                              !.hs[h].locked = FALSE],
                                                   << "conn", h, "complete" >>),
                                                << "gate_unlock", h >>)
                                        ELSE w3

handle_packet_http_response(w, in_seqno, in_content) ==
    IF ~(Len(in_content) = 5 /\ Parses(in_content))
    THEN trigger_error(w, "Invalid  HTTPRESPONSE")
    ELSE LET req_id == in_content[1]
             nhdr == in_content[2]
             resultcode == in_content[3]
             content == in_content[4]
             close_response == in_content[5]
         IN  IF req_id \notin DOMAIN w.ep.http_proxy_session_map
             THEN trigger_error(w, "Invalid HTTPRESPONSE session")
             ELSE LET h == w.ep.http_proxy_session_map[req_id]
                  IN  IF nhdr > 0 /\ w.throws = "append_header"
                      THEN trigger_error(w, "Invalid HTTPRESPONSE header block")
                      ELSE LET w1 == append_headers(w, h, nhdr)
                           IN  IF resultcode # 0 /\ w.throws = "set_status"
                               THEN trigger_error(w1, "invalid HTTPRESPONSE status code")
                               ELSE LET w2 == IF resultcode # 0
                                              THEN Fx([w1 EXCEPT !.host.conn[h].status = resultcode],
                                                      << "conn", h, "set_status" >>)
                                              ELSE w1
                                        w3 == IF content # 0
                                              THEN Fx([w2 EXCEPT !.host.conn[h].body = TRUE],
                                                      << "conn", h, "put_data" >>)
                                              ELSE w2
                                    IN  IF close_response = 2
                                        THEN Fx(Fx([w3 EXCEPT !.host.conn[h].completed = TRUE,
                                                              !.hs[h].locked = FALSE],
                                                   << "conn", h, "complete" >>),
                                                << "gate_unlock", h >>)
                                        ELSE w3

handle_packet_http_auth_request(w, in_seqno, in_content) ==
    IF ~Parses(in_content)
    THEN trigger_error(w, "Invalid HTTPAUTHREQ")
    ELSE send_http_auth(Fx(w, << "create_auth", "external" >>), 1).w

(***************************************************************************)
(* dispatch_rx_packet                                                      *)
(***************************************************************************)
\* the dispatcher treating a command it does not know as an error
dispatch_rx_packet_unknown_fatal(w, c) ==
    LET w0 == Fx(w, << "dispatch", c >>)
    IN  IF c.command = "MESSAGE"
        THEN Ret(handle_packet_message(w0, c.seqno, c.content), TRUE)
        ELSE IF c.command = "PING"
        THEN Ret(handle_packet_ping(w0, c.seqno, c.content), TRUE)
        ELSE IF c.command = "PONG"
        THEN Ret(handle_packet_pong(w0, c.seqno, c.content), TRUE)
        ELSE IF c.command = "SHUTDOWN"
        THEN Ret(handle_packet_shutdown(w0, c.seqno, c.content), TRUE)
        ELSE IF c.command = "HTTPREGISTERURI"
        THEN Ret(handle_packet_http_register(w0, c.seqno, c.content), TRUE)
        ELSE IF c.command = "HTTPRESPONSE"
        THEN Ret(handle_packet_http_response(w0, c.seqno, c.content), TRUE)
        ELSE IF c.command = "HTTPAUTHREQ"
        THEN Ret(handle_packet_http_auth_request(w0, c.seqno, c.content), TRUE)
        ELSE IF c.command = "EVENTBUSREGISTER"
        THEN Ret(handle_packet_eventbus_register(w0, c.seqno, c.content), TRUE)
        ELSE IF c.command = "EVENTBUSPUBLISH"
        THEN Ret(handle_packet_eventbus_publish(w0, c.seqno, c.content), TRUE)
        ELSE Ret(trigger_error(w0, "Unknown command"), FALSE)

dispatch_rx_packet(w, c) ==
    LET w0 == Fx(w, << "dispatch", c >>)
    IN  IF c.command = "MESSAGE"
        THEN Ret(handle_packet_message(w0, c.seqno, c.content), TRUE)
        ELSE IF c.command = "PING"
        THEN Ret(handle_packet_ping(w0, c.seqno, c.content), TRUE)
        ELSE IF c.command = "PONG"
        THEN Ret(handle_packet_pong(w0, c.seqno, c.content), TRUE)
        ELSE IF c.command = "SHUTDOWN"
        THEN Ret(handle_packet_shutdown(w0, c.seqno, c.content), TRUE)
        ELSE IF c.command = "HTTPREGISTERURI"
        THEN Ret(handle_packet_http_register(w0, c.seqno, c.content), TRUE)
        ELSE IF c.command = "HTTPRESPONSE"
        THEN Ret(handle_packet_http_response(w0, c.seqno, c.content), TRUE)
        ELSE IF c.command = "HTTPAUTHREQ"
        THEN Ret(handle_packet_http_auth_request(w0, c.seqno, c.content), TRUE)
        ELSE IF c.command = "EVENTBUSREGISTER"
        THEN Ret(handle_packet_eventbus_register(w0, c.seqno, c.content), TRUE)
        ELSE IF c.command = "EVENTBUSPUBLISH"
        THEN Ret(handle_packet_eventbus_publish(w0, c.seqno, c.content), TRUE)
        ELSE Ret(w0, FALSE)

(***************************************************************************)
(* handle_packet: the decoder run on the ingress buffer after every read.  *)
(* It extracts every complete frame the buffer holds and hands each        *)
(* envelope to dispatch_rx_packet; 1 asks for more bytes, -1 is a failure. *)
(***************************************************************************)
RECURSIVE handle_packet(_)
handle_packet(w) ==
    LET buf == w.ep.in_buf
    IN  IF Len(buf) < FrameHeaderSize
        THEN Ret(w, 1)
        ELSE IF SubSeq(buf, 1, 4) # KIS_EXTERNAL_PROTO_SIG
        THEN Ret(trigger_error(w, "Invalid signature on command frame"), -1)
        ELSE LET sz == FromBE32(SubSeq(buf, 5, 8))
                 data_sz == sz.lo
                 data == SubSeq(buf, FrameHeaderSize + 1, FrameHeaderSize + data_sz)
             IN  IF sz.hi > 0 \/ Len(buf) < FrameHeaderSize + data_sz
                 THEN Ret(w, 1)
                 ELSE IF adler32_checksum(data) # FromBE32(SubSeq(buf, 9, 12))
                 THEN Ret(trigger_error(w, "Invalid checksum on command frame"), -1)
                 ELSE IF ~ParseCommandOk(data)
                 THEN Ret(trigger_error(w, "Unparsable command frame"), -1)
                 ELSE LET w1 == [w EXCEPT !.ep.in_buf = Drop(buf, FrameHeaderSize + data_sz)]
                      IN  handle_packet(dispatch_rx_packet(w1, ParseCommand(data)).w)

(***************************************************************************)
(* handle_read: the completion of an async_read with error code ec.        *)
(***************************************************************************)
ErrorCodes == {"ok", "operation_aborted", "eof", "connection_reset"}

handle_read(w, ec) ==
    IF w.ep.stopped THEN Ret(w, 0)
    ELSE IF w.ep.cancelled THEN Ret(close_external(w), 0)
    ELSE IF ec # "ok"
    THEN LET w1 == [w EXCEPT !.ep.stopped = TRUE]
         IN  IF ec = "operation_aborted" THEN Ret(w1, -1)
             ELSE IF ec = "eof" THEN Ret(trigger_error(w1, "External socket closed"), -1)
             ELSE Ret(trigger_error(w1, ec), -1)
    ELSE handle_packet(w)

\* the completion handler start_ipc_read posts
ipc_read_completion(w, ec) ==
    LET r == handle_read(w, ec)
    IN  IF r.ret > 0 THEN start_ipc_read(r.w) ELSE close_external(r.w)

\* the completion handler start_tcp_read posts
tcp_read_completion(w, ec) ==
    LET r == handle_read(w, ec)
    IN  IF r.ret >= 0 THEN start_tcp_read(r.w) ELSE r.w

\* the completion handler send_packet posts with every write
write_completion(w, ec) ==
    IF ec = "ok" \/ ec = "operation_aborted" THEN w
    ELSE trigger_error(w, "write failure")

(***************************************************************************)
(* The HTTP proxy handler registered by handle_packet_http_register, run   *)
(* by worker h of the HTTP server.                                         *)
(***************************************************************************)
FreshConnection ==
    [headers |-> FALSE, status |-> 0, body |-> FALSE, completed |-> FALSE,
     cancelled |-> FALSE, closure_cb |-> FALSE]

\* the handler without session->locker->lock()
proxy_handler_enter_gate_open(w, h) ==
    LET sess_id == w.ep.http_session_id
        w1 == [w EXCEPT !.host.conn[h] = FreshConnection,
                        !.hs[h] = [pc |-> "parked", sess_id |-> sess_id,
                                   locked |-> FALSE, data |-> 0],
                        !.ep.http_session_id = @ + 1,
                        !.ep.http_proxy_session_map =
                            [x \in DOMAIN @ \cup {sess_id} |-> IF x = sess_id THEN h ELSE @[x]]]
        w2 == send_http_request(w1, sess_id, 1, 1).w
    IN  [w2 EXCEPT !.host.conn[h].closure_cb = TRUE]

\* from l.lock() to l.unlock(): the session is created and locked, recorded
\* under a new id, the request is sent and the closure callback installed
proxy_handler_enter(w, h) ==
    LET sess_id == w.ep.http_session_id
        w1 == [w EXCEPT !.host.conn[h] = FreshConnection,
                        !.hs[h] = [pc |-> "parked", sess_id |-> sess_id,
                                   locked |-> TRUE, data |-> 0],
                        !.ep.http_session_id = @ + 1,
                        !.ep.http_proxy_session_map =
                            [x \in DOMAIN @ \cup {sess_id} |-> IF x = sess_id THEN h ELSE @[x]]]
        w2 == send_http_request(w1, sess_id, 1, 1).w
    IN  [w2 EXCEPT !.host.conn[h].closure_cb = TRUE]

\* the handler returning without the erase
proxy_handler_leave_keep_record(w, h) ==
    [w EXCEPT !.hs[h].pc = "idle"]

\* after block_until(): l.lock(), erase the record if it is there
proxy_handler_leave(w, h) ==
    LET sess_id == w.hs[h].sess_id
    IN  [w EXCEPT !.hs[h].pc = "idle",
                  !.ep.http_proxy_session_map =
                      [x \in DOMAIN @ \ {sess_id} |-> @[x]]]

\* the closure callback: session->locker->unlock(-1)
closure_callback(w, h) ==
    Fx([w EXCEPT !.hs[h].locked = FALSE, !.hs[h].data = -1,
                 !.host.conn[h].closure_cb = FALSE],
       << "gate_unlock", h, -1 >>)

Blocked(h) == hs[h].pc = "parked" /\ hs[h].locked

(***************************************************************************)
(* What a driver does outside this file: the liveness timer and the        *)
(* delegated write callback.                                               *)
(***************************************************************************)
PingTimer == 1

start_ping_timer(w) ==
    [w EXCEPT !.ep.ping_timer_id = PingTimer, !.host.timers = @ \cup {PingTimer}]

install_write_cb(w) ==
    [w EXCEPT !.ep.write_cb = TRUE, !.ep.closure_cb = TRUE]

(***************************************************************************)
(* The initial state: the endpoint as its constructor leaves it.           *)
(***************************************************************************)
InitEp(seqno) ==
    [stopped |-> TRUE, cancelled |-> FALSE, in_buf |-> << >>,
     ipc_in |-> FALSE, ipc_out |-> FALSE, tcpsocket |-> FALSE, ipc_pid |-> 0,
     write_cb |-> FALSE, closure_cb |-> FALSE,
     seqno |-> seqno, last_pong |-> 0, ping_timer_id |-> -1,
     eventbus_callback_map |-> << >>, http_proxy_session_map |-> << >>,
     http_session_id |-> 0]

InitWith(seqno) ==
    /\ ep = InitEp(seqno)
    /\ host = [bus |-> {}, bus_next |-> 1, registry |-> {}, sigs |-> {}, timers |-> {},
               routes |-> {}, conn |-> [h \in Workers |-> FreshConnection],
               nextpid |-> 1, starts |-> 0, nerr |-> 0, txseq |-> << >>, sends |-> 0,
               mutex |-> 0]
    /\ io = [rd_ipc |-> FALSE, rd_tcp |-> FALSE, ab_ipc |-> 0, ab_tcp |-> 0,
             wr |-> [cb |-> 0, ipc |-> 0, tcp |-> 0]]
    /\ hs = [h \in Workers |-> [pc |-> "idle", sess_id |-> 0, locked |-> FALSE, data |-> 0]]
    /\ cpc = "idle"
    /\ wire = [buf |-> << >>, sent |-> 0, sub |-> << >>, rq |-> << >>, posted |-> << >>,
               out |-> << >>]
    /\ last = [op |-> "constructor", arg |-> << >>, ret |-> FALSE, fx |-> << >>]

Init == InitWith(Zero32)

(***************************************************************************)
(* Actions.                                                                *)
(***************************************************************************)
\* bytes on their way to a transport that has been closed are lost
Commit(r, op, arg, ret, w2) ==
    /\ ep' = r.ep
    /\ host' = r.host
    /\ io' = r.io
    /\ hs' = r.hs
    /\ last' = [op |-> op, arg |-> arg, ret |-> ret, fx |-> r.fx]
    /\ wire' = IF r.ep.ipc_in \/ r.ep.tcpsocket THEN w2 ELSE [w2 EXCEPT !.buf = << >>]

AttachUpTo(max) ==
    /\ host.starts < max
    /\ LET r == attach_tcp_socket(World)
       IN  Commit(r.w, "attach_tcp_socket", << >>, r.ret, wire)
    /\ UNCHANGED cpc

AttachTcpSocket == AttachUpTo(MaxStarts)

RunIpc(outcome) ==
    /\ host.starts < MaxStarts
    /\ LET r == run_ipc(World, outcome)
       IN  Commit(r.w, "run_ipc", outcome, r.ret, wire)
    /\ UNCHANGED cpc

\* close_external called by a thread that does not hold ext_mutex: the two
\* stores of lines 82 and 83 are made before the mutex is taken
CloseSetStopped ==
    /\ cpc = "idle"
    /\ cpc' = "l83"
    /\ Commit([World EXCEPT !.ep.stopped = TRUE], "close_external:82", << >>, FALSE, wire)

CloseSetCancelled ==
    /\ cpc = "l83"
    /\ cpc' = "l85"
    /\ Commit([World EXCEPT !.ep.cancelled = TRUE], "close_external:83", << >>, FALSE, wire)

CloseLocked ==
    /\ cpc = "l85"
    /\ cpc' = "idle"
    /\ Commit(close_external_locked(World), "close_external", << >>, FALSE, wire)

IpcSoftKill ==
    /\ Commit(ipc_soft_kill(World), "ipc_soft_kill", << >>, FALSE, wire)
    /\ UNCHANGED cpc

IpcHardKill ==
    /\ Commit(ipc_hard_kill(World), "ipc_hard_kill", << >>, FALSE, wire)
    /\ UNCHANGED cpc

\* the commands the owner of the endpoint sends
OwnerCommands ==
    { Command("PING", Zero32, << >>),
      Command("SHUTDOWN", Zero32, << 1 >>),
      Command("EXTENSION", U32(5), << >>) }

SendUpTo(c, max) ==
    /\ host.sends < max
    /\ LET r == send_packet([World EXCEPT !.host.sends = @ + 1], c)
       IN  Commit(r.w, "send_packet", c, r.ret, wire)
    /\ UNCHANGED cpc

Send(c) == SendUpTo(c, MaxSends)

WriteDone(via, ec) ==
    /\ io.wr[via] > 0
    /\ Commit(write_completion([World EXCEPT !.io.wr[via] = @ - 1], ec),
              "write_completion", << via, ec >>, FALSE, wire)
    /\ UNCHANGED cpc

\* the helper writes one frame
HelperWriteUpTo(frame, room, max) ==
    /\ wire.sent < max
    /\ Len(wire.buf) <= room
    /\ ep.ipc_in \/ ep.tcpsocket
    /\ wire' = [wire EXCEPT !.buf = @ \o frame, !.sent = @ + 1]
    /\ last' = [op |-> "helper_write", arg |-> << >>, ret |-> FALSE, fx |-> << >>]
    /\ UNCHANGED << ep, host, io, hs, cpc >>

HelperWrite(frame, room) == HelperWriteUpTo(frame, room, MaxRx)

\* the read on ipc_in completes with n more bytes in in_buf, or with an error
IpcReadDone(ec, n, throws) ==
    /\ IF ec = "operation_aborted" THEN io.ab_ipc > 0 /\ n = 0
       ELSE io.rd_ipc /\ (ec = "ok" <=> n > 0)
    /\ LET w0 == IF ec = "operation_aborted"
                 THEN [World EXCEPT !.io.ab_ipc = @ - 1, !.throws = throws]
                 ELSE [World EXCEPT !.io.rd_ipc = FALSE, !.throws = throws,
                                    !.ep.in_buf = @ \o Take(wire.buf, n)]
       IN  Commit(ipc_read_completion(w0, ec), "ipc_read",
                  [ec |-> ec, n |-> n, buf |-> w0.ep.in_buf, throws |-> throws], FALSE,
                  [wire EXCEPT !.buf = Drop(@, n)])
    /\ UNCHANGED cpc

\* the read on tcpsocket completes
TcpReadDone(ec, n, throws) ==
    /\ IF ec = "operation_aborted" THEN io.ab_tcp > 0 /\ n = 0
       ELSE io.rd_tcp /\ (ec = "ok" <=> n > 0)
    /\ LET w0 == IF ec = "operation_aborted"
                 THEN [World EXCEPT !.io.ab_tcp = @ - 1, !.throws = throws]
                 ELSE [World EXCEPT !.io.rd_tcp = FALSE, !.throws = throws,
                                    !.ep.in_buf = @ \o Take(wire.buf, n)]
       IN  Commit(tcp_read_completion(w0, ec), "tcp_read",
                  [ec |-> ec, n |-> n, buf |-> w0.ep.in_buf, throws |-> throws], FALSE,
                  [wire EXCEPT !.buf = Drop(@, n)])
    /\ UNCHANGED cpc

\* the IPC registry reports the exit of a registered child: the record's
\* first callback is close_external, its second trigger_error
ChildExit(pid, clean) ==
    /\ pid \in host.registry
    /\ LET w0 == [World EXCEPT !.host.registry = @ \ {pid}]
       IN  Commit(IF clean THEN close_external(w0) ELSE trigger_error(w0, "child exited"),
                  "child_exit", << pid, clean >>, FALSE, wire)
    /\ UNCHANGED cpc

HandlerInvoke(h) ==
    /\ host.routes # {}
    /\ hs[h].pc = "idle"
    /\ ep.http_session_id < MaxSessions
    /\ Commit(proxy_handler_enter(World, h), "proxy_handler_enter", h, FALSE, wire)
    /\ UNCHANGED cpc

HandlerResume(h) ==
    /\ hs[h].pc = "parked"
    /\ ~hs[h].locked
    /\ Commit(proxy_handler_leave(World, h), "proxy_handler_leave", h, FALSE, wire)
    /\ UNCHANGED cpc

ClientDisconnect(h) ==
    /\ Blocked(h)
    /\ host.conn[h].closure_cb
    /\ Commit(closure_callback(World, h), "closure_callback", h, FALSE, wire)
    /\ UNCHANGED cpc

StartPingTimer ==
    /\ ~ep.stopped
    /\ ep.ping_timer_id = -1
    /\ Commit(start_ping_timer(World), "start_ping_timer", << >>, FALSE, wire)
    /\ UNCHANGED cpc

InstallWriteCb ==
    /\ ~ep.write_cb
    /\ Commit(install_write_cb(World), "install_write_cb", << >>, FALSE, wire)
    /\ UNCHANGED cpc

(***************************************************************************)
(* The frames the helper writes.                                           *)
(***************************************************************************)
Frame(name, seqno, content) == EncodeFrame(SerializeCommand(Command(name, U32(seqno), content)))

\* number of headers, resultcode, content, close_response
ResponseShapes == { << 1, 200, 1, 1 >>, << 0, 0, 1, 0 >>, << 0, 0, 0, 2 >>, << 1, 200, 1, 2 >> }

HttpFrames ==
    { Frame("HTTPRESPONSE", 3, << id >> \o s) : id \in 0..(MaxSessions - 1), s \in ResponseShapes }
        \cup { Frame("HTTPREGISTERURI", 2, << 1, 1 >>) }

ControlFrames == { Frame("PING", 7, << >>), Frame("SHUTDOWN", 8, << 1 >>) }

Throws == {"none", "append_header", "set_status"}

(***************************************************************************)
(* Spec: the life cycle of the endpoint and its transports.                *)
(***************************************************************************)
Next ==
    \/ AttachTcpSocket
    \/ \E o \in RunIpcOutcomes : RunIpc(o)
    \/ CloseSetStopped
    \/ CloseSetCancelled
    \/ CloseLocked
    \/ IpcSoftKill
    \/ IpcHardKill
    \/ \E c \in OwnerCommands : Send(c)
    \/ \E via \in {"cb", "ipc", "tcp"}, ec \in {"ok", "connection_reset"} : WriteDone(via, ec)
    \/ \E f \in ControlFrames : HelperWrite(f, 2 * FrameHeaderSize)
    \/ \E ec \in ErrorCodes : IpcReadDone(ec, IF ec = "ok" THEN Len(wire.buf) ELSE 0, "none")
    \/ \E ec \in ErrorCodes : TcpReadDone(ec, IF ec = "ok" THEN Len(wire.buf) ELSE 0, "none")
    \/ \E pid \in host.registry, clean \in BOOLEAN : ChildExit(pid, clean)
    \/ StartPingTimer
    \/ InstallWriteCb

Spec == Init /\ [][Next]_vars

(***************************************************************************)
(* SpecHttp: the HTTP proxy sessions of an endpoint attached to a socket.  *)
(***************************************************************************)
NextHttp ==
    \/ AttachUpTo(MaxHttpStarts)
    \/ CloseSetStopped
    \/ CloseSetCancelled
    \/ CloseLocked
    \/ \E f \in HttpFrames : HelperWriteUpTo(f, 0, MaxFrames)
    \/ \E ec \in {"ok", "eof", "operation_aborted"}, t \in Throws :
          TcpReadDone(ec, IF ec = "ok" THEN Len(wire.buf) ELSE 0, t)
    \/ \E h \in Workers : HandlerInvoke(h)
    \/ \E h \in Workers : HandlerResume(h)
    \/ \E h \in Workers : ClientDisconnect(h)

SpecHttp == Init /\ [][NextHttp]_vars

(***************************************************************************)
(* SpecHttpFair: the sessions again, with the scheduling of the workers: a *)
(* handler whose gate is open is scheduled, block_until() returns and the  *)
(* worker thread runs on.                                                  *)
(***************************************************************************)
NextPark ==
    \/ AttachUpTo(MaxHttpStarts)
    \/ CloseSetStopped
    \/ CloseSetCancelled
    \/ CloseLocked
    \/ \E f \in HttpFrames : HelperWriteUpTo(f, 0, MaxFrames)
    \/ \E t \in Throws : TcpReadDone("ok", Len(wire.buf), t)
    \/ \E h \in Workers : HandlerInvoke(h)
    \/ \E h \in Workers : HandlerResume(h)
    \/ \E h \in Workers : ClientDisconnect(h)

SpecHttpFair ==
    Init /\ [][NextPark]_vars /\ \A h \in Workers : WF_vars(HandlerResume(h))

\* SpecHttpClose: the same, and a thread that has entered close_external gets
\* the mutex and runs to its end
SpecHttpClose ==
    /\ Init /\ [][NextPark]_vars
    /\ \A h \in Workers : WF_vars(HandlerResume(h))
    /\ WF_vars(CloseSetCancelled)
    /\ WF_vars(CloseLocked)

(***************************************************************************)
(* SpecSeq: sends on an endpoint whose counter starts at 0 or just below   *)
(* 2^32 - 1.                                                               *)
(***************************************************************************)
InitSeq == \E s \in {Zero32, [hi |-> Half - 1, lo |-> Half - 2]} : InitWith(s)

NextSeq ==
    \/ AttachUpTo(MaxHttpStarts)
    \/ CloseSetStopped
    \/ CloseSetCancelled
    \/ CloseLocked
    \/ \E c \in OwnerCommands : SendUpTo(c, MaxSeqSends)
    \/ HelperWrite(Frame("PING", 7, << >>), 0)
    \/ TcpReadDone("ok", Len(wire.buf), "none")

SpecSeq == InitSeq /\ [][NextSeq]_vars

(***************************************************************************)
(* SpecParse: every built-in command arriving with a content that does not *)
(* parse as its sub-message, on an endpoint that has routes, listeners and *)
(* sessions.                                                               *)
(***************************************************************************)
UnparsableFrames == { Frame(BuiltinCommands[i], 4, << BadByte >>) : i \in 1..Len(BuiltinCommands) }

SetupFrames ==
    { Frame("HTTPREGISTERURI", 2, << 1, 1 >>), Frame("EVENTBUSREGISTER", 3, << 1 >>) }

NextParse ==
    \/ AttachUpTo(MaxHttpStarts)
    \/ \E f \in UnparsableFrames \cup SetupFrames : HelperWriteUpTo(f, 0, MaxParseFrames)
    \/ TcpReadDone("ok", Len(wire.buf), "none")
    \/ \E h \in Workers : HandlerInvoke(h)

SpecParse == Init /\ [][NextParse]_vars

(***************************************************************************)
(* SpecWrite: the writes send_packet starts on the attached socket.        *)
(* async_write is a chain of async_write_some operations on the buffer it  *)
(* was given: each is tried at once when the reactor has no write queued   *)
(* for the socket and is queued otherwise; one that wrote a part of the    *)
(* bytes posts a continuation, which starts the next for the rest.         *)
(* wire.sub are the frames handed to async_write, wire.rq the operations   *)
(* queued in the reactor, wire.posted the continuations not yet run and    *)
(* wire.out the bytes the socket has taken.  The buffer is frame_buf, an   *)
(* array on the stack of send_packet: what is written from it after        *)
(* send_packet has returned is the frame's bytes or whatever has come to   *)
(* lie there.                                                              *)
(***************************************************************************)
\* how many bytes one async_write_some may take of the bytes it is given
WriteSizes(bytes) ==
    {0, Len(bytes)} \cup (IF Len(bytes) > FrameHeaderSize THEN {FrameHeaderSize} ELSE {})

Clobbered(bytes) == [i \in 1..Len(bytes) |-> BadByte]

\* async_write_some on bytes, k of them taken at once when nothing is queued
StartWriteSome(wr, bytes, k) ==
    IF wr.rq # << >> \/ k = 0 THEN [wr EXCEPT !.rq = Append(@, bytes)]
    ELSE IF k < Len(bytes)
    THEN [wr EXCEPT !.out = @ \o Take(bytes, k), !.posted = Append(@, Drop(bytes, k))]
    ELSE [wr EXCEPT !.out = @ \o bytes]

\* the write handler of send_packet has run with no error when the chain ended
WriteFinished(w, before, after) ==
    IF Len(after.rq) + Len(after.posted) < Len(before.rq) + Len(before.posted) + 1
    THEN write_completion([w EXCEPT !.io.wr["tcp"] = @ - 1], "ok")
    ELSE w

\* send_packet on the attached socket
SendWrite(c, k) ==
    /\ host.sends < MaxWriteSends
    /\ SendVia(World) = "tcp"
    /\ LET r == send_packet([World EXCEPT !.host.sends = @ + 1], c)
           frame == r.w.fx[Len(r.w.fx)][3]
           wr == StartWriteSome([wire EXCEPT !.sub = Append(@, frame)], frame, k)
       IN  /\ k \in WriteSizes(frame)
           /\ Commit(WriteFinished(r.w, wire, wr), "send_packet", c, r.ret, wr)
    /\ UNCHANGED cpc

\* the reactor runs the write at the head of its queue
ReactorWrite(k, intact) ==
    /\ wire.rq # << >>
    /\ ep.tcpsocket
    /\ k \in WriteSizes(Head(wire.rq)) \ {0}
    /\ LET bytes == IF intact THEN Head(wire.rq) ELSE Clobbered(Head(wire.rq))
           wr == StartWriteSome([wire EXCEPT !.rq = << >>], bytes, k)
           wr2 == [wr EXCEPT !.rq = Tail(wire.rq)]
       IN  Commit(WriteFinished(World, [wire EXCEPT !.rq = Tail(@)], wr2) ,
                  "async_write_some", << k, intact >>, FALSE, wr2)
    /\ UNCHANGED cpc

\* a continuation runs and starts the write of the rest
WriteContinue(i, k, intact) ==
    /\ i \in 1..Len(wire.posted)
    /\ ep.tcpsocket
    /\ LET rest == IF intact THEN wire.posted[i] ELSE Clobbered(wire.posted[i])
           wr0 == [wire EXCEPT !.posted = SubSeq(@, 1, i - 1) \o SubSeq(@, i + 1, Len(@))]
           wr == StartWriteSome(wr0, rest, k)
       IN  /\ k \in WriteSizes(rest)
           /\ Commit(WriteFinished(World, wr0, wr), "async_write", << i, k, intact >>, FALSE, wr)
    /\ UNCHANGED cpc

NextWrite ==
    \/ AttachUpTo(MaxHttpStarts)
    \/ \E c \in OwnerCommands, k \in 0..(2 * FrameHeaderSize) : SendWrite(c, k)
    \/ \E k \in 1..(2 * FrameHeaderSize), intact \in BOOLEAN : ReactorWrite(k, intact)
    \/ \E i \in 1..MaxWriteSends, k \in 0..(2 * FrameHeaderSize), intact \in BOOLEAN :
          WriteContinue(i, k, intact)

SpecWrite == Init /\ [][NextWrite]_vars

(***************************************************************************)
(* SpecErr: trigger_error statement by statement.  It takes no lock: the   *)
(* write handlers that call it run on the threads of the io service, and   *)
(* one thread may be between the test of stopped and close_external while  *)
(* another enters.  hs[h].pc is the line thread h is about to run.         *)
(***************************************************************************)
\* a write completes with an error on thread h: the handler calls
\* trigger_error("write failure"), which tests stopped (l.176)
WriteFailed(h, via) ==
    /\ io.wr[via] > 0
    /\ hs[h].pc = "idle"
    /\ LET w0 == Fx([World EXCEPT !.io.wr[via] = @ - 1], << "trigger_error", "write failure" >>)
       IN  Commit(IF w0.ep.stopped THEN w0 ELSE [w0 EXCEPT !.hs[h].pc = "l179"],
                  "trigger_error:176", << h, via >>, FALSE, wire)
    /\ UNCHANGED cpc

\* l.179: handle_error(in_error)
TriggerErrorReport(h) ==
    /\ hs[h].pc = "l179"
    /\ Commit(handle_error([World EXCEPT !.hs[h].pc = "l181"], "write failure"),
              "trigger_error:179", h, FALSE, wire)
    /\ UNCHANGED cpc

\* l.181: close_external()
TriggerErrorClose(h) ==
    /\ hs[h].pc = "l181"
    /\ Commit(close_external([World EXCEPT !.hs[h].pc = "idle"]),
              "trigger_error:181", h, FALSE, wire)
    /\ UNCHANGED cpc

NextErr ==
    \/ AttachUpTo(MaxHttpStarts)
    \/ \E c \in OwnerCommands : SendUpTo(c, MaxWriteSends)
    \/ \E via \in {"tcp"} : WriteDone(via, "ok")
    \/ \E h \in Workers, via \in {"tcp"} : WriteFailed(h, via)
    \/ \E h \in Workers : TriggerErrorReport(h)
    \/ \E h \in Workers : TriggerErrorClose(h)
    \/ TcpReadDone("eof", 0, "none")

SpecErr == Init /\ [][NextErr]_vars

(***************************************************************************)
(* SpecLock: the proxy handler statement by statement, with ext_mutex.     *)
(* host.mutex is the worker that holds ext_mutex through the handler's     *)
(* local_demand_locker, 0 when no worker does.  The receive path and       *)
(* close_external take the mutex for the length of one call, so they run   *)
(* when no worker holds it.  hs[h].pc is the line worker h is about to     *)
(* run; "parked" is block_until().                                         *)
(***************************************************************************)
\* l.lock() at l.735
handler_lock(w, h) == [w EXCEPT !.host.mutex = h, !.hs[h].pc = "l737"]

\* l.737 to l.751 under the mutex
handler_body(w, h) == [proxy_handler_enter(w, h) EXCEPT !.hs[h].pc = "l754"]

\* the handler going to block_until() with the mutex still held
handler_unlock_keep_mutex(w, h) == [w EXCEPT !.hs[h].pc = "parked"]

\* l.unlock() at l.754, then block_until() at l.757
handler_unlock(w, h) == [w EXCEPT !.host.mutex = 0, !.hs[h].pc = "parked"]

\* block_until() returns
handler_wake(w, h) == [w EXCEPT !.hs[h].pc = "l760"]

\* l.lock() at l.760, the erase, and the release of the mutex on return
handler_relock(w, h) == proxy_handler_leave(w, h)

HandlerLock(h) ==
    /\ host.routes # {}
    /\ hs[h].pc = "idle"
    /\ ep.http_session_id < MaxSessions
    /\ host.mutex = 0
    /\ Commit(handler_lock(World, h), "handler:735", h, FALSE, wire)
    /\ UNCHANGED cpc

HandlerBody(h) ==
    /\ hs[h].pc = "l737"
    /\ Commit(handler_body(World, h), "proxy_handler_enter", h, FALSE, wire)
    /\ UNCHANGED cpc

HandlerUnlock(h) ==
    /\ hs[h].pc = "l754"
    /\ Commit(handler_unlock(World, h), "handler:754", h, FALSE, wire)
    /\ UNCHANGED cpc

HandlerWake(h) ==
    /\ hs[h].pc = "parked"
    /\ ~hs[h].locked
    /\ Commit(handler_wake(World, h), "handler:757", h, FALSE, wire)
    /\ UNCHANGED cpc

HandlerRelock(h) ==
    /\ hs[h].pc = "l760"
    /\ host.mutex = 0
    /\ Commit(handler_relock(World, h), "proxy_handler_leave", h, FALSE, wire)
    /\ UNCHANGED cpc

NextLock ==
    \/ AttachUpTo(MaxHttpStarts)
    \/ CloseSetStopped
    \/ CloseSetCancelled
    \/ host.mutex = 0 /\ CloseLocked
    \/ \E f \in HttpFrames : HelperWriteUpTo(f, 0, MaxFrames)
    \/ host.mutex = 0 /\ TcpReadDone("ok", Len(wire.buf), "none")
    \/ \E h \in Workers : HandlerLock(h)
    \/ \E h \in Workers : HandlerBody(h)
    \/ \E h \in Workers : HandlerUnlock(h)
    \/ \E h \in Workers : HandlerWake(h)
    \/ \E h \in Workers : HandlerRelock(h)
    \/ \E h \in Workers : ClientDisconnect(h)

SpecLock == Init /\ [][NextLock]_vars

(***************************************************************************)
(* SpecBus: EVENTBUSREGISTER messages, with event names repeated within a  *)
(* payload and across messages, on an endpoint that is attached, closed    *)
(* and attached again.                                                     *)
(***************************************************************************)
BusFrames ==
    { Frame("EVENTBUSREGISTER", 3, names) : names \in {<< 1 >>, << 2 >>, << 1, 1 >>, << 1, 2 >>} }

NextBus ==
    \/ AttachTcpSocket
    \/ CloseSetStopped
    \/ CloseSetCancelled
    \/ CloseLocked
    \/ \E f \in BusFrames : HelperWriteUpTo(f, 0, MaxFrames)
    \/ TcpReadDone("ok", Len(wire.buf), "none")

SpecBus == Init /\ [][NextBus]_vars

(***************************************************************************)
(* SpecFrame: frames, good and damaged, reaching the decoder in reads of   *)
(* any size async_read can complete with.                                  *)
(***************************************************************************)
CorruptAt(frame, i) == [frame EXCEPT ![i] = (@ + 1) % 256]

GoodFrames == { Frame("PING", 7, << >>), Frame("EXTENSION", 9, << 4 >>) }

\* a wrong signature, a wrong data_checksum, a payload that no longer matches
\* its checksum
DamagedFrames ==
    { CorruptAt(Frame("PING", 7, << >>), i) : i \in {1, FrameHeaderSize, FrameHeaderSize + 1} }

NextFrame ==
    \/ AttachTcpSocket
    \/ RunIpc("forked")
    \/ \E f \in GoodFrames \cup DamagedFrames : HelperWriteUpTo(f, FrameHeaderSize, MaxFrames)
    \/ \E n \in FrameHeaderSize..Len(wire.buf) : TcpReadDone("ok", n, "none")
    \/ \E n \in FrameHeaderSize..Len(wire.buf) : IpcReadDone("ok", n, "none")
    \/ \E via \in {"ipc", "tcp"} : WriteDone(via, "ok")

SpecFrame == Init /\ [][NextFrame]_vars

(***************************************************************************)
(* Properties.                                                             *)
(***************************************************************************)
HasFx(fx, tag) == \E i \in 1..Len(fx) : fx[i][1] = tag

CountFx(fx, tag) == Cardinality({i \in 1..Len(fx) : fx[i][1] = tag})

\* pipes, socket and write callback are gone and no read is posted
TransportsClosed(e) == ~e.ipc_in /\ ~e.ipc_out /\ ~e.tcpsocket /\ ~e.write_cb

\* the listeners the endpoint recorded are off the bus, the sessions it
\* recorded are cancelled and their gates open
Released(e, hst, sessions) ==
    /\ Range(e.eventbus_callback_map) \cap hst.bus = {}
    /\ \A id \in DOMAIN e.http_proxy_session_map :
          LET h == e.http_proxy_session_map[id]
          IN  hst.conn[h].cancelled /\ ~sessions[h].locked

TornDown(e, hst, sessions) ==
    e.stopped /\ e.cancelled /\ TransportsClosed(e) /\ Released(e, hst, sessions)

\* C1: when close_external has returned, stopped and cancelled are true, the
\* pipes and the socket are closed, the ping timer is gone, the recorded
\* listeners are off the bus, every recorded session has its response stream
\* cancelled and its gate released with the failure value -1, write_cb and
\* closure_cb are cleared, and a recorded child is out of the registry and
\* has been sent SIGKILL.
C1_CloseExternalPostcondition ==
    last.op = "close_external" =>
        /\ ep.stopped /\ ep.cancelled
        /\ ~ep.ipc_in /\ ~ep.ipc_out /\ ~ep.tcpsocket
        /\ ep.ping_timer_id \notin host.timers
        /\ Range(ep.eventbus_callback_map) \cap host.bus = {}
        /\ \A id \in DOMAIN ep.http_proxy_session_map :
              LET h == ep.http_proxy_session_map[id]
              IN  host.conn[h].cancelled /\ ~hs[h].locked /\ hs[h].data = -1
        /\ ~ep.write_cb /\ ~ep.closure_cb
        /\ ep.ipc_pid > 0 =>
              (ep.ipc_pid \notin host.registry /\ << ep.ipc_pid, "SIGKILL" >> \in host.sigs)

StartOps == {"attach_tcp_socket", "run_ipc"}

\* C3: once an endpoint that has been running is stopped, it stays
\* stopped whatever is called on it.
C3_TerminalAbsorbing ==
    [][(host.starts > 0 /\ ep.stopped /\ ep.cancelled) => ep'.stopped]_vars

\* C4: a call of attach_tcp_socket or run_ipc on a running endpoint returns
\* false and leaves the endpoint as it was.
C4_SecondStartRefused ==
    [][(~ep.stopped /\ ~ep.cancelled /\ last'.op \in StartOps)
          => (last'.ret = FALSE /\ ep' = ep)]_vars

ActiveTransports(e) ==
    Cardinality({k \in {"pipes", "tcp", "cb"} :
                    \/ k = "pipes" /\ (e.ipc_in \/ e.ipc_out)
                    \/ k = "tcp" /\ e.tcpsocket
                    \/ k = "cb" /\ e.write_cb})

\* C5: at most one of the pipe pair, the socket and write_cb is in use after
\* every step, and attach_tcp_socket on an endpoint with ipc.pid > 0 returns false.
C5_SingleTransport ==
    [][/\ ActiveTransports(ep') <= 1
       /\ (ep.ipc_pid > 0 /\ last'.op = "attach_tcp_socket") => last'.ret = FALSE]_vars

FatalCodes == {"eof", "connection_reset"}

\* C6: a read or write that completes on a running endpoint with EOF or an
\* error other than operation_aborted calls handle_error and leaves the
\* endpoint torn down.
C6_TransportErrorTearsDown ==
    [][(/\ ~ep.stopped /\ ~ep.cancelled
        /\ \/ last'.op \in {"ipc_read", "tcp_read"} /\ last'.arg.ec \in FatalCodes
           \/ last'.op = "write_completion" /\ last'.arg[2] \in FatalCodes)
          => (HasFx(last'.fx, "handle_error") /\ TornDown(ep', host', hs'))]_vars

\* the operations applied to the connection of worker h, in order
RECURSIVE ConnOps(_, _)
ConnOps(fx, h) ==
    IF fx = << >> THEN << >>
    ELSE IF Head(fx)[1] = "conn" /\ Head(fx)[2] = h
         THEN << Head(fx)[3] >> \o ConnOps(Tail(fx), h)
         ELSE ConnOps(Tail(fx), h)

\* the step is a read that handed an HTTPRESPONSE to the dispatcher
IsResponseStep(l) ==
    /\ l.op = "tcp_read"
    /\ Len(l.fx) > 0
    /\ l.fx[1][1] = "dispatch"
    /\ l.fx[1][2].command = "HTTPRESPONSE"

ResponseOf(l) == l.fx[1][2].content

SessionIds == 0..(MaxSessions - 1)

ParkedSessions == {h \in Workers : hs[h].pc = "parked"}

\* C2: every handler parked when close_external returns goes on to return, and
\* every session recorded when close_external returns is removed from
\* http_proxy_session_map.
C2_ParkedHandlersReturn ==
    /\ \A h \in Workers :
          (last.op = "close_external" /\ hs[h].pc = "parked") ~> (hs[h].pc = "idle")
    /\ \A id \in SessionIds :
          (last.op = "close_external" /\ id \in DOMAIN ep.http_proxy_session_map)
              ~> (id \notin DOMAIN ep.http_proxy_session_map)

\* C2 witness: close_external has returned with every worker parked on a
\* recorded session
C2_Witness ==
    /\ last.op = "close_external"
    /\ ParkedSessions = Workers
    /\ Cardinality(DOMAIN ep.http_proxy_session_map) = NumWorkers

\* what a response with the fields of content applies to its connection when
\* nothing throws
ExpectedOps(content) ==
    [i \in 1..content[2] |-> "append_header"]
        \o (IF content[3] # 0 THEN << "set_status" >> ELSE << >>)
        \o (IF content[4] # 0 THEN << "put_data" >> ELSE << >>)
        \o (IF content[5] = 2 THEN << "complete" >> ELSE << >>)

\* the connection refuses the response: append_header or set_status throws
Refused(content, throws) ==
    \/ content[2] > 0 /\ throws = "append_header"
    \/ content[3] # 0 /\ throws = "set_status"

\* the step hands the dispatcher an HTTPRESPONSE for a recorded session
KnownResponseStep ==
    /\ IsResponseStep(last')
    /\ ResponseOf(last')[1] \in DOMAIN ep.http_proxy_session_map

\* C9 (as stated): an HTTPRESPONSE without close_response=true leaves its session
\* recorded and its gate as it was.
C9_OpenResponseKeepsSession ==
    [][(KnownResponseStep /\ ResponseOf(last')[5] # 2)
          => LET id == ResponseOf(last')[1]
                 h == ep.http_proxy_session_map[id]
             IN  /\ id \in DOMAIN ep'.http_proxy_session_map
                 /\ hs'[h].locked = hs[h].locked
                 /\ ~ep'.stopped]_vars

\* C9 (as amended): an HTTPRESPONSE for a recorded session that the connection
\* accepts applies its headers, then its status, then its content and, with
\* close_response=true only, completes the stream and opens the gate; without
\* close_response=true the record, the gate and the handler stay as they were.
\* When append_header or set_status throws, the operations before the throw
\* are applied and trigger_error tears the endpoint down, which opens the gate
\* of every session.  A handler whose gate is open returns, and on its return
\* its record is gone.
C9_ResponseApplied ==
    /\ [][KnownResponseStep
            => LET c == ResponseOf(last')
                   id == c[1]
                   h == ep.http_proxy_session_map[id]
                   ops == ConnOps(last'.fx, h)
               IN  IF Refused(c, last'.arg.throws)
                   THEN /\ ops = IF c[2] > 0 /\ last'.arg.throws = "append_header"
                                 THEN << >>
                                 ELSE [i \in 1..c[2] |-> "append_header"]
                        /\ HasFx(last'.fx, "handle_error")
                        /\ TornDown(ep', host', hs')
                   ELSE /\ ops = ExpectedOps(c)
                        /\ \A g \in Workers \ {h} : ConnOps(last'.fx, g) = << >>
                        /\ ep'.http_proxy_session_map = ep.http_proxy_session_map
                        /\ hs'[h].pc = hs[h].pc
                        /\ IF c[5] = 2
                           THEN host'.conn[h].completed /\ ~hs'[h].locked
                           ELSE /\ hs'[h].locked = hs[h].locked
                                /\ host'.conn[h].completed = host.conn[h].completed
                                /\ ~ep'.stopped]_vars
    /\ [][last'.op = "proxy_handler_leave"
            => hs[last'.arg].sess_id \notin DOMAIN ep'.http_proxy_session_map]_vars
    /\ \A h \in Workers :
          (hs[h].pc = "parked" /\ host.conn[h].completed) ~> (hs[h].pc = "idle")

\* C9 witness: a session that took a response without close_response and stayed
\* parked has now been completed by one with close_response=true
C9_Witness ==
    /\ IsResponseStep(last)
    /\ ResponseOf(last) \o << >> = << ResponseOf(last)[1], 0, 0, 0, 2 >>
    /\ \E h \in Workers :
          /\ hs[h].pc = "parked" /\ ~hs[h].locked
          /\ hs[h].sess_id = ResponseOf(last)[1]
          /\ host.conn[h].completed /\ host.conn[h].headers /\ host.conn[h].body
          /\ ~host.conn[h].cancelled

\* the step hands the dispatcher an HTTPRESPONSE for an id that is not recorded
UnknownResponseStep ==
    /\ IsResponseStep(last')
    /\ ResponseOf(last')[1] \notin DOMAIN ep.http_proxy_session_map

InvalidSession == << "handle_error", "Invalid HTTPRESPONSE session" >>

\* the handler of worker h has returned after the closure callback opened its gate
ReturnedAfterDisconnect(sessions, h) ==
    sessions[h].pc = "idle" /\ sessions[h].data = -1

\* C10: an HTTPRESPONSE for an id that is not recorded reports "Invalid
\* HTTPRESPONSE session" through trigger_error, which tears the endpoint down,
\* and applies no header, status, content or completion to any connection; the
\* id of a handler that returned after a client disconnect is not recorded.
C10_UnknownSession ==
    /\ [][UnknownResponseStep
            => /\ \E i \in 1..Len(last'.fx) : last'.fx[i] = InvalidSession
               /\ CountFx(last'.fx, "conn") = 0
               /\ \A h \in Workers :
                     /\ host'.conn[h].headers = host.conn[h].headers
                     /\ host'.conn[h].status = host.conn[h].status
                     /\ host'.conn[h].body = host.conn[h].body
                     /\ host'.conn[h].completed = host.conn[h].completed
               /\ TornDown(ep', host', hs')]_vars
    /\ [][\A h \in Workers :
             ReturnedAfterDisconnect(hs', h)
                 => hs'[h].sess_id \notin DOMAIN ep'.http_proxy_session_map]_vars

\* C10 witness: the response just refused carries the id of a handler that
\* returned after its client disconnected
C10_Witness ==
    /\ IsResponseStep(last)
    /\ \E i \in 1..Len(last.fx) : last.fx[i] = InvalidSession
    /\ \E h \in Workers :
          ReturnedAfterDisconnect(hs, h) /\ hs[h].sess_id = ResponseOf(last)[1]

\* the seqno of the envelope in a frame
FrameSeqno(frame) == FromBE32(SubSeq(frame, FrameHeaderSize + 2, FrameHeaderSize + 5))

\* C7: every frame handed to a transport carries a seqno other than 0, the
\* seqnos send_packet has assigned are pairwise distinct, and the seqno
\* assigned when the counter is at 2^32 - 1 is 1; send_packet runs under
\* ext_mutex, so sends from several threads take their seqnos one at a time.
C7_SeqnoAssigned ==
    [][/\ \A i \in 1..Len(last'.fx) :
             last'.fx[i][1] = "tx" => FrameSeqno(last'.fx[i][3]) # Zero32
       /\ \A i \in 1..Len(host'.txseq) : host'.txseq[i] # Zero32
       /\ \A i, j \in 1..Len(host'.txseq) : i # j => host'.txseq[i] # host'.txseq[j]
       /\ (ep.seqno = Max32 /\ ep'.seqno # ep.seqno) => ep'.seqno = One32]_vars

\* C7 witness: 2^32 - 1 has been assigned and the assignment after it was 1
C7_Witness ==
    \E i \in 1..(Len(host.txseq) - 1) :
        host.txseq[i] = Max32 /\ host.txseq[i + 1] = One32

\* the commands a read handed to the dispatcher, in order
RECURSIVE Dispatched(_)
Dispatched(fx) ==
    IF fx = << >> THEN << >>
    ELSE IF Head(fx)[1] = "dispatch"
         THEN << Head(fx)[2] >> \o Dispatched(Tail(fx))
         ELSE Dispatched(Tail(fx))

RECURSIVE EncodeAll(_)
EncodeAll(cs) ==
    IF cs = << >> THEN << >>
    ELSE EncodeFrame(SerializeCommand(Head(cs))) \o EncodeAll(Tail(cs))

IsPrefix(s, b) == Len(s) <= Len(b) /\ SubSeq(b, 1, Len(s)) = s

BadSignature(b) ==
    Len(b) >= FrameHeaderSize /\ SubSeq(b, 1, 4) # KIS_EXTERNAL_PROTO_SIG

BadChecksum(b) ==
    /\ Len(b) >= FrameHeaderSize
    /\ SubSeq(b, 1, 4) = KIS_EXTERNAL_PROTO_SIG
    /\ FromBE32(SubSeq(b, 5, 8)).hi = 0
    /\ LET data_sz == FromBE32(SubSeq(b, 5, 8)).lo
       IN  /\ Len(b) >= FrameHeaderSize + data_sz
           /\ adler32_checksum(SubSeq(b, FrameHeaderSize + 1, FrameHeaderSize + data_sz))
                 # FromBE32(SubSeq(b, 9, 12))

\* a read completes without error on a running endpoint
ReadStep ==
    /\ ~ep.stopped /\ ~ep.cancelled
    /\ last'.op \in {"ipc_read", "tcp_read"}
    /\ last'.arg.ec = "ok"

\* C8: the frames a read hands to the dispatcher are frames with the signature,
\* the full length and the checksum of their payload, found one after another
\* at the head of the buffer; when what follows them has a wrong signature or
\* a wrong checksum, nothing of it is dispatched, handle_error is called once
\* and the endpoint is torn down, wherever the reads cut the bytes.
C8_OnlyValidFramesDispatched ==
    [][ReadStep
          => LET buf == last'.arg.buf
                 done == EncodeAll(Dispatched(last'.fx))
                 rest == Drop(buf, Len(done))
             IN  /\ IsPrefix(done, buf)
                 /\ (BadSignature(rest) \/ BadChecksum(rest))
                       => /\ CountFx(last'.fx, "handle_error") = 1
                          /\ TornDown(ep', host', hs')
                          /\ ep'.in_buf = rest]_vars

\* C8 witness: a good frame has been dispatched and the frame after it, whose
\* header came with an earlier read and whose last bytes with this one, has
\* a wrong checksum and has torn the endpoint down
C8_Witness ==
    /\ last.op \in {"ipc_read", "tcp_read"}
    /\ last.arg.ec = "ok"
    /\ host.nerr = 1
    /\ CountFx(last.fx, "handle_error") = 1
    /\ Dispatched(last.fx) = << >>
    /\ HasFx(last.fx, "remove_timer")
    /\ Len(last.arg.buf) - last.arg.n >= FrameHeaderSize
    /\ BadChecksum(last.arg.buf)
    /\ Len(host.txseq) = 1
    /\ ep.stopped

GateReleased(h) ==
    host.conn[h].completed \/ host.conn[h].cancelled \/ hs[h].data = -1

Only(cs, name) == SelectSeq(cs, LAMBDA c : c.command = name)

ShutdownInfo(r) == << "msg", "INFO", "Kismet external interface shutting down: ", r >>

ShutdownError(r) == << "handle_error", << "Remote connection requesting shutdown: ", r >> >>

\* a read on a running endpoint hands the dispatcher one SHUTDOWN
ShutdownStep ==
    /\ ReadStep
    /\ Len(Only(Dispatched(last'.fx), "SHUTDOWN")) = 1

\* C12: a read on a running endpoint that dispatches a valid SHUTDOWN with
\* reason r puts the INFO message "Kismet external interface shutting down: r"
\* on the message bus once, calls handle_error once, with a message holding r,
\* and leaves every transport closed and the endpoint stopped and cancelled.
C12_ShutdownTearsDown ==
    [][ShutdownStep
          => LET r == Only(Dispatched(last'.fx), "SHUTDOWN")[1].content[1]
                 fx == last'.fx
             IN  /\ Cardinality({i \in 1..Len(fx) : fx[i] = ShutdownInfo(r)}) = 1
                 /\ Cardinality({i \in 1..Len(fx) : fx[i][1] = "msg" /\ fx[i][2] = "INFO"}) = 1
                 /\ Cardinality({i \in 1..Len(fx) : fx[i] = ShutdownError(r)}) = 1
                 /\ CountFx(fx, "handle_error") = 1
                 /\ host'.nerr = host.nerr + 1
                 /\ TornDown(ep', host', hs')
                 /\ ~io'.rd_ipc /\ ~io'.rd_tcp]_vars

\* C12 witness: a SHUTDOWN that followed a PING in the same read has torn
\* down an endpoint that ran a child
C12_Witness ==
    /\ last.op = "ipc_read"
    /\ last.arg.ec = "ok"
    /\ Len(Dispatched(last.fx)) = 2
    /\ Dispatched(last.fx)[1].command = "PING"
    /\ Dispatched(last.fx)[2].command = "SHUTDOWN"
    /\ \E i \in 1..Len(last.fx) : last.fx[i] = ShutdownInfo(1)
    /\ << ep.ipc_pid, "SIGKILL" >> \in host.sigs
    /\ ep.stopped /\ ep.cancelled

\* the frames a step handed to a transport, in order
RECURSIVE Transmitted(_)
Transmitted(fx) ==
    IF fx = << >> THEN << >>
    ELSE IF Head(fx)[1] = "tx"
         THEN << Head(fx)[3] >> \o Transmitted(Tail(fx))
         ELSE Transmitted(Tail(fx))

\* the envelope in a frame
EnvelopeOf(frame) == ParseCommand(Drop(frame, FrameHeaderSize))

\* a read on a running endpoint hands the dispatcher PINGs and nothing that
\* stops the endpoint
PingStep ==
    /\ ReadStep
    /\ Only(Dispatched(last'.fx), "PING") # << >>
    /\ Only(Dispatched(last'.fx), "SHUTDOWN") = << >>

\* C13: a read on a running endpoint answers every PING it dispatches with one
\* frame, in order: a PONG whose ping_seqno is the seqno of the PING's envelope
\* and whose own seqno is not 0; nothing else is transmitted.
C13_PingAnswered ==
    [][PingStep
          => LET pings == Only(Dispatched(last'.fx), "PING")
                 out == Transmitted(last'.fx)
             IN  /\ Len(out) = Len(pings)
                 /\ \A i \in 1..Len(pings) :
                       /\ IsPrefix(KIS_EXTERNAL_PROTO_SIG, out[i])
                       /\ EnvelopeOf(out[i]).command = "PONG"
                       /\ EnvelopeOf(out[i]).content = BE32(pings[i].seqno)
                       /\ EnvelopeOf(out[i]).seqno # Zero32
                 /\ ~ep'.stopped]_vars

\* C13 witness: two PINGs that came in one read have been answered by two
\* PONGs with different seqnos
C13_Witness ==
    /\ last.op \in {"ipc_read", "tcp_read"}
    /\ last.arg.ec = "ok"
    /\ Len(Only(Dispatched(last.fx), "PING")) = 2
    /\ Len(Transmitted(last.fx)) = 2
    /\ EnvelopeOf(Transmitted(last.fx)[1]).content = BE32(U32(7))
    /\ EnvelopeOf(Transmitted(last.fx)[1]).seqno # EnvelopeOf(Transmitted(last.fx)[2]).seqno

NoTransport(e) == ~e.write_cb /\ ~e.ipc_out /\ ~e.tcpsocket

NoConnections == << "trigger_error", "no connections" >>

\* C14: send_packet called with write_cb unset and neither ipc_out nor
\* tcpsocket open hands no frame to a transport, calls
\* trigger_error("no connections") and returns 0; otherwise it hands one frame
\* to a transport and returns the seqno that frame carries, which is not 0 and
\* is the caller's when the caller gave one.
C14_SendWithoutTransport ==
    [][last'.op = "send_packet"
          => IF NoTransport(ep)
             THEN /\ Transmitted(last'.fx) = << >>
                  /\ io'.wr = io.wr
                  /\ Cardinality({i \in 1..Len(last'.fx) : last'.fx[i] = NoConnections}) = 1
                  /\ last'.ret = Zero32
             ELSE /\ Len(Transmitted(last'.fx)) = 1
                  /\ ~HasFx(last'.fx, "trigger_error")
                  /\ last'.ret # Zero32
                  /\ last'.ret = EnvelopeOf(Transmitted(last'.fx)[1]).seqno
                  /\ last'.arg.seqno # Zero32 => last'.ret = last'.arg.seqno]_vars

\* C14 witness: a send on an endpoint that ran and was torn down found
\* nothing open and returned 0
C14_Witness ==
    /\ last.op = "send_packet"
    /\ last.ret = Zero32
    /\ host.starts > 0
    /\ NoTransport(ep)
    /\ \E i \in 1..Len(last.fx) : last.fx[i] = NoConnections

\* the message the handler of each built-in command is said to give
\* trigger_error when its content does not parse
InvalidMessage ==
    [MESSAGE |-> "Invalid MESSAGE", PING |-> "Invalid PING", PONG |-> "Invalid PONG",
     SHUTDOWN |-> "Invalid SHUTDOWN", HTTPREGISTERURI |-> "Invalid HTTPREGISTERURI",
     HTTPRESPONSE |-> "Invalid HTTPRESPONSE", HTTPAUTHREQ |-> "Invalid HTTPAUTHREQ",
     EVENTBUSREGISTER |-> "Invalid EVENTBUSREGISTER",
     EVENTBUSPUBLISH |-> "Invalid EVENTBUSPUBLISH"]

NormalEffects ==
    {"tx", "msg", "register_route", "register_listener", "publish", "conn", "create_auth"}

\* a read on a running endpoint that hands the dispatcher one built-in
\* command whose content does not parse
UnparsableStep ==
    /\ ReadStep
    /\ Len(Dispatched(last'.fx)) = 1
    /\ Dispatched(last'.fx)[1].command \in DOMAIN InvalidMessage
    /\ ~Parses(Dispatched(last'.fx)[1].content)

\* C15: a built-in command whose content does not parse makes its handler
\* call trigger_error("Invalid <CMD>") and have none of its normal effects: no
\* message forwarded, no reply sent, last_pong unchanged, no route or listener
\* registered, no session touched, no event published.
C15_UnparsableRejected ==
    [][UnparsableStep
          => /\ \E i \in 1..Len(last'.fx) :
                    last'.fx[i] = << "trigger_error",
                                     InvalidMessage[Dispatched(last'.fx)[1].command] >>
             /\ \A i \in 1..Len(last'.fx) : last'.fx[i][1] \notin NormalEffects
             /\ ep'.last_pong = ep.last_pong
             /\ host'.routes = host.routes]_vars

\* a read on a running endpoint whose buffer is nothing but frames of
\* commands that are not built in, all of them dispatched
UnknownCommandStep ==
    /\ ReadStep
    /\ Dispatched(last'.fx) # << >>
    /\ \A i \in 1..Len(Dispatched(last'.fx)) :
          Dispatched(last'.fx)[i].command \notin Range(BuiltinCommands)
    /\ last'.arg.buf = EncodeAll(Dispatched(last'.fx))

\* C16: a command tag that is not built in is dropped: dispatch_rx_packet
\* returns false for it, trigger_error is not called, stopped, cancelled,
\* seqno, last_pong, the session and listener maps and the transports stay
\* as they were, and the next read is posted.
C16_UnknownCommandDropped ==
    [][UnknownCommandStep
          => /\ \A i \in 1..Len(Dispatched(last'.fx)) :
                    ~dispatch_rx_packet(World, Dispatched(last'.fx)[i]).ret
             /\ ~HasFx(last'.fx, "trigger_error")
             /\ ~HasFx(last'.fx, "handle_error")
             /\ ep' = [ep EXCEPT !.in_buf = << >>]
             /\ host' = host
             /\ hs' = hs
             /\ ~ep'.stopped /\ ~ep'.cancelled
             /\ ActiveTransports(ep') = ActiveTransports(ep)
             /\ io'.rd_ipc \/ io'.rd_tcp]_vars

\* C16 witness: an EXTENSION frame has been read and dropped and the endpoint
\* is running with a read posted
C16_Witness ==
    /\ last.op \in {"ipc_read", "tcp_read"}
    /\ Dispatched(last.fx) # << >>
    /\ \A i \in 1..Len(Dispatched(last.fx)) : Dispatched(last.fx)[i].command = "EXTENSION"
    /\ last.arg.buf = EncodeAll(Dispatched(last.fx))
    /\ ~ep.stopped /\ ~ep.cancelled
    /\ io.rd_ipc \/ io.rd_tcp

RECURSIVE Concat(_)
Concat(ss) == IF ss = << >> THEN << >> ELSE Head(ss) \o Concat(Tail(ss))

\* C17: the bytes the socket has taken are the frames handed to send_packet,
\* whole and in the order of the calls: what is on the wire is a prefix of
\* the submitted frames laid end to end, also when a send comes while an
\* earlier write is pending.
C17_FramesInOrder == IsPrefix(wire.out, Concat(wire.sub))

RepeatedEffects == {"remove_listener", "gate_unlock", "remove_ipc", "kill"}

\* everything close_external does has been done: the endpoint is torn down
\* and a recorded child has had its SIGKILL
AlreadyTornDown ==
    /\ TornDown(ep, host, hs)
    /\ ep.ping_timer_id \notin host.timers
    /\ ep.ipc_pid > 0 => << ep.ipc_pid, "SIGKILL" >> \in host.sigs /\ ep.ipc_pid \notin host.registry

\* C18: close_external called on an endpoint that is already torn down changes
\* no state and has no further external effect: no listener is removed a
\* second time, no gate released a second time, the child is not taken out
\* of the registry or signalled again.
C18_CloseExternalIdempotent ==
    [][last'.op = "close_external" /\ AlreadyTornDown
          => /\ \A i \in 1..Len(last'.fx) : last'.fx[i][1] \notin RepeatedEffects
             /\ ep' = ep /\ host' = host /\ hs' = hs /\ io' = io]_vars

\* C19: however many trigger_error calls are made on an endpoint, and from
\* whichever threads, handle_error is invoked once at most between two
\* starts: by the first call that finds the endpoint running, and by none
\* that comes after.
C19_HandleErrorOnce == host.nerr <= host.starts

IoEffects == {"async_read", "dispatch", "tx"}

\* C20: while stopped or cancelled is true nothing but a start begins new
\* I/O: no operation posts a read, hands an inbound frame to the dispatcher
\* or hands an outbound frame to write_cb, the pipe or the socket.
C20_NoIoUnlessRunning ==
    [][(ep.stopped \/ ep.cancelled) /\ last'.op \notin StartOps
          => \A i \in 1..Len(last'.fx) : last'.fx[i][1] \notin IoEffects]_vars

\* C21: no worker holds ext_mutex while it is parked on the gate of its
\* session: the holder of the mutex, if there is one, is at a statement it
\* can run, so the receive path and close_external get the mutex however
\* many handlers are parked.
C21_NoMutexWhileParked ==
    /\ \A h \in Workers : hs[h].pc = "parked" => host.mutex # h
    /\ host.mutex # 0 => hs[host.mutex].pc \in {"l737", "l754"}

\* C21 witness: with one handler parked on a locked gate, the receive path
\* has delivered an HTTPRESPONSE that released the gate of another
C21_Witness ==
    /\ IsResponseStep(last)
    /\ HasFx(last.fx, "gate_unlock")
    /\ host.mutex = 0
    /\ \E h \in Workers : Blocked(h)

\* a handler is invoked
InvokeStep == last'.op = "proxy_handler_enter"

\* the invocation takes the value of http_session_id for its session, records
\* the session under it and leaves the counter one higher
AllocatesReqId ==
    LET h == last'.arg
        id == ep.http_session_id
    IN  /\ ep'.http_session_id = id + 1
        /\ hs'[h].sess_id = id
        /\ id \in DOMAIN ep'.http_proxy_session_map
        /\ ep'.http_proxy_session_map[id] = h
        /\ hs'[h].pc = "parked"

\* the step hands one frame to a transport: an HTTPREQUEST with the req_id
SendsOneRequest ==
    /\ Len(Transmitted(last'.fx)) = 1
    /\ EnvelopeOf(Transmitted(last'.fx)[1]).command = "HTTPREQUEST"
    /\ EnvelopeOf(Transmitted(last'.fx)[1]).content[1] = ep.http_session_id

\* handlers that are in their session at the same time have different req_ids
LiveSessionsDistinct ==
    \A h1, h2 \in Workers :
        (h1 # h2 /\ hs'[h1].pc = "parked" /\ hs'[h2].pc = "parked")
            => hs'[h1].sess_id # hs'[h2].sess_id

\* C22 (as stated): every invocation of the handler takes its req_id from
\* http_session_id, which nothing else changes, live sessions have different
\* req_ids, and every invocation sends exactly one HTTPREQUEST carrying its
\* req_id before it parks.
C22_EveryInvocationSends ==
    [][/\ InvokeStep => AllocatesReqId /\ SendsOneRequest
       /\ ~InvokeStep => ep'.http_session_id = ep.http_session_id
       /\ LiveSessionsDistinct]_vars

\* C22 (amended): the same, with the request sent when the endpoint has a
\* transport; an invocation on an endpoint with nothing open sends no frame
\* and calls trigger_error("no connections").
C22_InvocationAllocatesAndSends ==
    [][/\ InvokeStep
          => /\ AllocatesReqId
             /\ IF NoTransport(ep)
                THEN /\ Transmitted(last'.fx) = << >>
                     /\ \E i \in 1..Len(last'.fx) : last'.fx[i] = NoConnections
                ELSE SendsOneRequest
       /\ ~InvokeStep => ep'.http_session_id = ep.http_session_id
       /\ LiveSessionsDistinct]_vars

\* C22 witness: a second handler has been invoked while the first is parked;
\* it has req_id 1, the first has req_id 0, and its HTTPREQUEST is on the wire
C22_Witness ==
    /\ last.op = "proxy_handler_enter"
    /\ hs[last.arg].sess_id = 1
    /\ \E h \in Workers : h # last.arg /\ hs[h].pc = "parked" /\ hs[h].sess_id = 0
    /\ Len(Transmitted(last.fx)) = 1
    /\ EnvelopeOf(Transmitted(last.fx)[1]).content[1] = 1

\* C23: while the endpoint is running, the listeners it has on the event bus
\* are one for each event name in eventbus_callback_map, the one whose id
\* the map holds for the name: every id the map holds is on the bus, no two
\* names share an id, and no id the endpoint held before is left on it.
C23_OneListenerPerEvent ==
    (~ep.stopped /\ ~ep.cancelled)
        => /\ host.bus = Range(ep.eventbus_callback_map)
           /\ \A e1, e2 \in DOMAIN ep.eventbus_callback_map :
                 e1 # e2 => ep.eventbus_callback_map[e1] # ep.eventbus_callback_map[e2]

\* C24: an invocation of the handler that starts after the endpoint has been
\* torn down, when send_http_request finds no connection, returns: the
\* worker does not stay parked on the gate of its session.
C24_LateInvocationReturns ==
    \A h \in Workers :
        (/\ last.op = "proxy_handler_enter"
         /\ last.arg = h
         /\ ep.stopped /\ ep.cancelled /\ NoTransport(ep))
            ~> (hs[h].pc = "idle")

\* C25: in every state cancelled implies stopped, however close_external,
\* the kills, trigger_error and handle_read interleave with attach_tcp_socket
\* and run_ipc.
C25_CancelledImpliesStopped == ep.cancelled => ep.stopped

====
